---- MODULE Spec2Model ----
(***************************************************************************)
(* A model of the paint task of components/gfx/paint_task.rs: the          *)
(* coordinator's message loop (PaintTask::start), the tile dispatch        *)
(* (PaintTask::paint), the worker threads (WorkerThread::main), the layer  *)
(* tree walk (initialize_layers::build) and the teardown in                *)
(* PaintTask::create.                                                      *)
(*                                                                         *)
(* Option<T> is a sequence of length 0 (None) or 1 (Some(x)).              *)
(***************************************************************************)
EXTENDS Integers, Sequences, FiniteSets, TLC

\* ------------------------------------------------------------------ bounds
\* Largest number of tiles (BufferRequests) in one PaintRequest.
MaxTiles == 3
\* Largest number of PaintRequests in one Paint message.
MaxRequests == 2
\* Largest paint_threads option explored.
MaxThreads == 2
\* Total number of tiles the environment asks to paint over a run.
MaxShipped == 3
\* Number of Exit messages the environment sends over a run.
MaxExits == 2
\* The depth of the scene trees the layer walk is applied to.
MaxDepth == 3

\* ------------------------------------------------------------ value domains
None == <<>>
Some(x) == <<x>>
IsSome(o) == Len(o) = 1
Unwrap(o) == o[1]

Epochs == {1, 2}
FrameTreeIds == {7, 8}
LayerIds == {1, 2}
ExitTypes == {"Complete", "PipelineOnly"}
\* Screen sizes of tiles, <<width, height>> in device pixels.
Sizes == {<<1000, 1000>>, <<500, 500>>}
PipelineId == 11

\* ------------------------------------------------------------------ scenes
\* A StackingContext: its optional PaintLayer, its bounds origin, overflow
\* rect (Au, 60 per pixel), its own transform tag and its child stacking
\* contexts. Points are <<x, y>>.
Ctx(layer, borigin, oorigin, osize, tr, est3d, kids) ==
    [layer |-> layer, bounds_origin |-> borigin, overflow_origin |-> oorigin,
     overflow_size |-> osize, transform |-> tr, perspective |-> <<>>,
     establishes_3d_context |-> est3d, children |-> kids]

PaintLayer(id) == Some([id |-> id, background_color |-> "white", scroll_policy |-> "Scrollable"])

\* Scene 1: layer 1 at the root, a layerless context below it, layer 2 below that.
\* Scene 2: a layerless root with layer 1 below it; layer 2 is absent.
SceneTree(s) ==
    IF s = 1
    THEN Ctx(PaintLayer(1), <<0, 0>>, <<0, 0>>, <<12000, 12000>>, <<>>, FALSE,
             << Ctx(None, <<600, 1200>>, <<0, 0>>, <<6000, 6000>>, <<"t1">>, FALSE,
                    << Ctx(PaintLayer(2), <<60, 90>>, <<-30, 0>>, <<3000, 3000>>, <<"t2">>, TRUE, <<>>) >>) >>)
    ELSE Ctx(None, <<120, 0>>, <<0, 0>>, <<12000, 12000>>, <<>>, FALSE,
             << Ctx(PaintLayer(1), <<0, 60>>, <<0, 0>>, <<6000, 6000>>, <<>>, FALSE, <<>>) >>)

\* The scene layout sends with each epoch: the reflow of epoch 2 drops layer 2.
SceneAt(epoch) == epoch

\* The first stacking context, in depth-first pre-order, whose PaintLayer has
\* the given id (display_list::find_stacking_context_with_layer_id).
RECURSIVE find_stacking_context_with_layer_id(_, _)
RECURSIVE find_in_children(_, _)
find_stacking_context_with_layer_id(ctx, layer_id) ==
    IF IsSome(ctx.layer) /\ Unwrap(ctx.layer).id = layer_id
    THEN Some(ctx)
    ELSE find_in_children(ctx.children, layer_id)

find_in_children(kids, layer_id) ==
    IF kids = <<>>
    THEN None
    ELSE LET found == find_stacking_context_with_layer_id(Head(kids), layer_id)
         IN  IF IsSome(found) THEN found ELSE find_in_children(Tail(kids), layer_id)

\* ------------------------------------------------------------- layer tree
AU_PER_PX == 60

\* Au::to_nearest_px: the nearest pixel, halves rounded away from zero.
to_nearest_px(au) ==
    IF au >= 0 THEN (2 * au + AU_PER_PX) \div (2 * AU_PER_PX)
    ELSE -((2 * (-au) + AU_PER_PX) \div (2 * AU_PER_PX))

\* Mutant: the vertical offsets are not added up.
PointAddAcross(p, q) == <<p[1] + q[1], p[2]>>

\* Point2D<Au> addition.
PointAdd(p, q) == <<p[1] + q[1], p[2] + q[2]>>
ZERO_POINT == <<0, 0>>
\* A Matrix4 is the word of transform tags multiplied into it, identity the
\* empty word: mul is concatenation.
Identity == <<>>
Mul(m, n) == m \o n

\* initialize_layers::build: the properties list after walking stacking_context.
RECURSIVE build(_, _, _, _, _, _)
RECURSIVE build_children(_, _, _, _, _, _)
build(properties, stacking_context, page_position, transform0, perspective0, parent_id) ==
    LET transform == Mul(transform0, stacking_context.transform)
        perspective == Mul(perspective0, stacking_context.perspective)
    IN  IF IsSome(stacking_context.layer)
        THEN LET paint_layer == Unwrap(stacking_context.layer)
                 overflow_relative_page_position ==
                     PointAdd(PointAdd(page_position, stacking_context.bounds_origin),
                              stacking_context.overflow_origin)
                 layer_position ==
                     [origin |-> <<to_nearest_px(overflow_relative_page_position[1]),
                                   to_nearest_px(overflow_relative_page_position[2])>>,
                      size |-> <<to_nearest_px(stacking_context.overflow_size[1]),
                                 to_nearest_px(stacking_context.overflow_size[2])>>]
                 pushed == Append(properties,
                     [id |-> paint_layer.id,
                      parent_id |-> parent_id,
                      rect |-> layer_position,
                      background_color |-> paint_layer.background_color,
                      scroll_policy |-> paint_layer.scroll_policy,
                      transform |-> transform,
                      perspective |-> perspective,
                      establishes_3d_context |-> stacking_context.establishes_3d_context])
             IN  build_children(pushed, stacking_context.children, ZERO_POINT,
                                Identity, Identity, Some(paint_layer.id))
        ELSE build_children(properties, stacking_context.children,
                            PointAdd(stacking_context.bounds_origin, page_position),
                            transform, perspective, parent_id)

\* Mutant: the children are walked last to first.
build_children_reversed(properties, kids, page_position, transform, perspective, next_parent_id) ==
    IF kids = <<>>
    THEN properties
    ELSE build_children(
             build(properties, kids[Len(kids)], page_position, transform, perspective,
                   next_parent_id),
             SubSeq(kids, 1, Len(kids) - 1), page_position, transform, perspective,
             next_parent_id)

\* The loop over stacking_context.display_list.children.
build_children(properties, kids, page_position, transform, perspective, next_parent_id) ==
    IF kids = <<>>
    THEN properties
    ELSE build_children(
             build(properties, Head(kids), page_position, transform, perspective, next_parent_id),
             Tail(kids), page_position, transform, perspective, next_parent_id)

\* ------------------------------------------------------------ buffer pool
\* BufferMap: the free LayerBuffers in insertion order (oldest first) and the
\* byte budget.
BufferMapNew(max_mem) == [buffers |-> <<>>, max_mem |-> max_mem]

\* Bytes of one LayerBuffer: stride times height.
BufferBytes(b) == b.stride * b.screen_pos.size[2]

RECURSIVE SumBytes(_)
SumBytes(bufs) == IF bufs = <<>> THEN 0 ELSE BufferBytes(Head(bufs)) + SumBytes(Tail(bufs))

BufferMapMem(bm) == SumBytes(bm.buffers)

\* Index of the most recently inserted buffer of exactly that size, 0 if none.
BufferMapFindIndex(bm, size) ==
    LET hits == {i \in 1..Len(bm.buffers) : bm.buffers[i].screen_pos.size = size}
    IN  IF hits = {} THEN 0 ELSE CHOOSE i \in hits : \A j \in hits : j <= i

RemoveAt(s, i) == SubSeq(s, 1, i - 1) \o SubSeq(s, i + 1, Len(s))

BufferMapFind(bm, size) ==
    LET i == BufferMapFindIndex(bm, size)
    IN  IF i = 0 THEN None ELSE Some(bm.buffers[i])

BufferMapAfterFind(bm, size) ==
    LET i == BufferMapFindIndex(bm, size)
    IN  IF i = 0 THEN bm ELSE [bm EXCEPT !.buffers = RemoveAt(bm.buffers, i)]

\* Evict least-recently-inserted buffers until the total is within budget.
RECURSIVE Evict(_, _)
Evict(bufs, max_mem) ==
    IF SumBytes(bufs) <= max_mem \/ bufs = <<>> THEN bufs ELSE Evict(Tail(bufs), max_mem)

BufferMapInsert(bm, buffer) ==
    [bm EXCEPT !.buffers = Evict(Append(bm.buffers, buffer), bm.max_mem)]

BufferMapClear(bm) == [bm EXCEPT !.buffers = <<>>]

\* ------------------------------------------------------------------- state
VARIABLES
    \* opts: gpu_painting and paint_threads, fixed for the run
    gpu_painting, paint_threads,
    \* PaintTask fields
    root_stacking_context, paint_permission, current_epoch, buffer_map,
    used_buffer_count,
    \* locals of PaintTask::start
    exit_response_channel, waiting_for_compositor_buffers_to_exit,
    \* position of the paint task, and the message being handled
    pc, msg,
    \* locals of the Paint arm and of PaintTask::paint
    req_i, replies, tile_i, new_buffers,
    \* history: the number of buffers each request of msg handled so far put in replies
    contributed,
    \* the worker threads: their two channels and whether they run
    to_worker, from_worker, worker_state,
    \* what the task sent while handling msg, in order
    sent,
    \* the environment: buffers the compositor holds, ack channels signalled,
    \* native surfaces created so far, Exit messages sent so far,
    \* whether shutdown_chan was signalled
    loaned, acked, next_surface, exits_sent, shutdown_sent,
    \* history: buffers shipped by assign_painted_buffers and buffers received
    \* in UnusedBuffer messages
    shipped_total, returned_total

task_vars == <<root_stacking_context, paint_permission, current_epoch, buffer_map,
               used_buffer_count, exit_response_channel,
               waiting_for_compositor_buffers_to_exit>>
paint_vars == <<req_i, replies, tile_i, new_buffers, contributed>>
worker_vars == <<to_worker, from_worker, worker_state>>
env_vars == <<loaned, acked, next_surface, exits_sent, shutdown_sent,
              shipped_total, returned_total>>
opt_vars == <<gpu_painting, paint_threads>>
vars == <<opt_vars, task_vars, paint_vars, worker_vars, env_vars, pc, msg, sent>>

\* `BufferMap::new(10000000)`: the byte budget of the pool.
BufferMapMaxMem == 10000000

\* Mutant: the pool is created with ten times the byte budget.
buffer_map_new_tenfold == BufferMapNew(10 * BufferMapMaxMem)

\* `buffer_map: BufferMap::new(10000000)` of the PaintTask literal.
buffer_map_new == BufferMapNew(BufferMapMaxMem)

\* Mutant: the number of worker threads is opts.paint_threads in either mode.
thread_count_from_opts == paint_threads

\* WorkerThreadProxy::spawn: the number of worker threads.
thread_count == IF gpu_painting THEN 1 ELSE paint_threads
Workers == 0..(thread_count - 1)

NoMsg == [type |-> "none"]

Init ==
    /\ gpu_painting \in BOOLEAN
    /\ paint_threads \in 1..MaxThreads
    /\ gpu_painting => paint_threads = MaxThreads
    /\ root_stacking_context = None
    /\ paint_permission = FALSE
    /\ current_epoch = None
    /\ buffer_map = buffer_map_new
    /\ used_buffer_count = 0
    /\ exit_response_channel = None
    /\ waiting_for_compositor_buffers_to_exit = FALSE
    /\ pc = "recv"
    /\ msg = NoMsg
    /\ req_i = 0
    /\ replies = <<>>
    /\ tile_i = 0
    /\ new_buffers = <<>>
    /\ contributed = <<>>
    /\ to_worker = [w \in Workers |-> <<>>]
    /\ from_worker = [w \in Workers |-> <<>>]
    /\ worker_state = [w \in Workers |-> "running"]
    /\ sent = <<>>
    /\ loaned = {}
    /\ acked = {}
    /\ next_surface = 1
    /\ exits_sent = 0
    /\ shutdown_sent = FALSE
    /\ shipped_total = 0
    /\ returned_total = 0

\* ----------------------------------------------------------- sent messages
PainterReady == [to |-> "constellation", op |-> "PainterReady", id |-> PipelineId]

InitializeLayersCall(properties, epoch) ==
    [to |-> "compositor", op |-> "initialize_layers_for_pipeline", id |-> PipelineId,
     properties |-> properties, epoch |-> epoch]

\* Mutant: the reply is stamped with the frame tree id in place of the epoch.
AssignPaintedBuffersCallMisstamped(epoch, reply_list, frame_tree_id) ==
    [to |-> "compositor", op |-> "assign_painted_buffers", id |-> PipelineId,
     epoch |-> frame_tree_id, replies |-> reply_list, frame_tree_id |-> frame_tree_id]

\* self.compositor.assign_painted_buffers(self.id, epoch, replies, frame_tree_id)
AssignPaintedBuffersCall(epoch, reply_list, frame_tree_id) ==
    [to |-> "compositor", op |-> "assign_painted_buffers", id |-> PipelineId,
     epoch |-> epoch, replies |-> reply_list, frame_tree_id |-> frame_tree_id]

NotifyExiting == [to |-> "compositor", op |-> "notify_paint_task_exiting", id |-> PipelineId]
UnregisterReporter == [to |-> "mem_profiler", op |-> "UnregisterReporter"]
Reports(size) == [to |-> "reports_chan", op |-> "reports", size |-> size]
Ack(channel) == [to |-> "response_channel", op |-> "send", channel |-> channel]

\* Mutant: the layers are never published.
initialize_layers_skipped(stacking_context, epoch) == <<>>

\* PaintTask::initialize_layers: the calls it makes on the compositor, given
\* self.root_stacking_context and self.current_epoch.
initialize_layers(stacking_context, epoch) ==
    IF stacking_context = None
    THEN <<>>
    ELSE << InitializeLayersCall(
                build(<<>>, SceneTree(Unwrap(stacking_context)), ZERO_POINT,
                      Identity, Identity, None),
                Unwrap(epoch)) >>

\* ------------------------------------------------------- inbound messages
\* Tile i of a request: its page rect, screen rect and content age.
BufferRequest(i, size) ==
    [page_rect |-> i, screen_rect |-> [origin |-> i, size |-> size], content_age |-> i - 1]

TilesOf(n, size) == [i \in 1..n |-> BufferRequest(i, size)]

PaintRequests(size) ==
    {[buffer_requests |-> TilesOf(n, size), layer_id |-> l, epoch |-> e] :
        n \in 0..MaxTiles, l \in LayerIds, e \in Epochs}

RequestLists(size) == UNION {[1..k -> PaintRequests(size)] : k \in 0..MaxRequests}

RECURSIVE TotalTiles(_)
TotalTiles(requests) ==
    IF requests = <<>> THEN 0
    ELSE Len(Head(requests).buffer_requests) + TotalTiles(Tail(requests))

\* The Paint messages the environment sends, by the number of tiles they ask for.
PaintMessages ==
    {[requests |-> requests, frame_tree_id |-> frame_tree_id] :
        requests \in UNION {RequestLists(size) : size \in Sizes},
        frame_tree_id \in FrameTreeIds}

PaintMessagesUpTo ==
    [budget \in 0..MaxShipped |->
        {m \in PaintMessages : TotalTiles(m.requests) <= budget}]

\* The end of a match arm or a `continue`: back to port.recv().
NextMessage ==
    /\ pc = "handled"
    /\ pc' = "recv"
    /\ msg' = NoMsg
    /\ sent' = <<>>
    /\ contributed' = <<>>
    /\ UNCHANGED <<opt_vars, task_vars, req_i, replies, tile_i, new_buffers, worker_vars, env_vars>>

\* Mutant: the layers are published without looking at the paint permission.
paint_init_publishes(epoch, stacking_context) ==
    IF waiting_for_compositor_buffers_to_exit THEN <<>>
    ELSE initialize_layers(Some(stacking_context), Some(epoch))

\* What the PaintInit arm sends after storing the epoch and the scene.
paint_init_sends(epoch, stacking_context) ==
    IF ~paint_permission THEN <<PainterReady>>
    ELSE IF waiting_for_compositor_buffers_to_exit THEN <<>>
    ELSE initialize_layers(Some(stacking_context), Some(epoch))

\* Msg::PaintInit(epoch, stacking_context)
PaintInit(epoch, stacking_context) ==
    /\ pc = "recv"
    /\ msg' = [type |-> "PaintInit", epoch |-> epoch, stacking_context |-> stacking_context]
    /\ current_epoch' = Some(epoch)
    /\ root_stacking_context' = Some(stacking_context)
    /\ sent' = paint_init_sends(epoch, stacking_context)
    /\ pc' = "handled"
    /\ UNCHANGED <<opt_vars, paint_permission, buffer_map, used_buffer_count,
                   exit_response_channel, waiting_for_compositor_buffers_to_exit,
                   paint_vars, worker_vars, env_vars>>

\* Mutant: the Paint arm does not look at the paint permission.
paint_arm_entry_unpermitted ==
    IF waiting_for_compositor_buffers_to_exit THEN "ignore" ELSE "paint"

\* Mutant: the Paint arm does not look at the drain flag.
paint_arm_entry_undrained == IF ~paint_permission THEN "ready" ELSE "paint"

\* The two early `continue`s of the Paint arm: "ready" without paint
\* permission, "ignore" while waiting to exit, otherwise "paint".
paint_arm_entry ==
    IF ~paint_permission THEN "ready"
    ELSE IF waiting_for_compositor_buffers_to_exit THEN "ignore"
    ELSE "paint"

\* Msg::Paint(requests, frame_tree_id): up to the loop over the requests.
Paint(requests, frame_tree_id) ==
    /\ pc = "recv"
    /\ shipped_total < MaxShipped
    /\ msg' = [type |-> "Paint", requests |-> requests, frame_tree_id |-> frame_tree_id]
    /\ IF paint_arm_entry = "ready"
       THEN /\ sent' = <<PainterReady>>
            /\ pc' = "handled"
            /\ UNCHANGED <<req_i, replies>>
       ELSE IF paint_arm_entry = "ignore"
       THEN /\ sent' = <<>>
            /\ pc' = "handled"
            /\ UNCHANGED <<req_i, replies>>
       ELSE /\ sent' = <<>>
            /\ replies' = <<>>
            /\ req_i' = 1
            /\ pc' = "paint"
    /\ UNCHANGED <<opt_vars, task_vars, tile_i, new_buffers, contributed, worker_vars, env_vars>>

\* Mutant: no surface is created when the pool has no buffer of the size.
find_or_create_none_on_miss(bm, surface, tile) ==
    LET found == BufferMapFind(bm, tile.screen_rect.size)
    IN  IF gpu_painting \/ ~IsSome(found)
        THEN [layer_buffer |-> None, buffer_map |-> bm, next_surface |-> surface]
        ELSE [layer_buffer |->
                  Some([Unwrap(found) EXCEPT !.rect = tile.page_rect,
                                             !.screen_pos = tile.screen_rect,
                                             !.painted_with_cpu = TRUE,
                                             !.content_age = tile.content_age]),
              buffer_map |-> BufferMapAfterFind(bm, tile.screen_rect.size),
              next_surface |-> surface]

\* Mutant: a reused buffer keeps the content_age it came back with.
find_or_create_keeping_age(bm, surface, tile) ==
    LET found == BufferMapFind(bm, tile.screen_rect.size)
    IN  IF gpu_painting
        THEN [layer_buffer |-> None, buffer_map |-> bm, next_surface |-> surface]
        ELSE IF IsSome(found)
        THEN [layer_buffer |->
                  Some([Unwrap(found) EXCEPT !.rect = tile.page_rect,
                                             !.screen_pos = tile.screen_rect,
                                             !.painted_with_cpu = TRUE]),
              buffer_map |-> BufferMapAfterFind(bm, tile.screen_rect.size),
              next_surface |-> surface]
        ELSE [layer_buffer |->
                  Some([native_surface |-> surface,
                        rect |-> tile.page_rect,
                        screen_pos |-> tile.screen_rect,
                        stride |-> tile.screen_rect.size[1] * 4,
                        painted_with_cpu |-> TRUE,
                        content_age |-> tile.content_age,
                        pixels |-> None]),
              buffer_map |-> bm,
              next_surface |-> surface + 1]

\* Mutant: a pooled buffer is handed out and stays in the pool as well.
find_or_create_keeping_pooled(bm, surface, tile) ==
    LET found == BufferMapFind(bm, tile.screen_rect.size)
    IN  IF gpu_painting
        THEN [layer_buffer |-> None, buffer_map |-> bm, next_surface |-> surface]
        ELSE IF IsSome(found)
        THEN [layer_buffer |->
                  Some([Unwrap(found) EXCEPT !.rect = tile.page_rect,
                                             !.screen_pos = tile.screen_rect,
                                             !.painted_with_cpu = TRUE,
                                             !.content_age = tile.content_age]),
              buffer_map |-> bm,
              next_surface |-> surface]
        ELSE [layer_buffer |->
                  Some([native_surface |-> surface,
                        rect |-> tile.page_rect,
                        screen_pos |-> tile.screen_rect,
                        stride |-> tile.screen_rect.size[1] * 4,
                        painted_with_cpu |-> TRUE,
                        content_age |-> tile.content_age,
                        pixels |-> None]),
              buffer_map |-> bm,
              next_surface |-> surface + 1]

\* PaintTask::find_or_create_layer_buffer_for_tile: the buffer handed to the
\* worker, the pool and the native surface counter afterwards.
find_or_create_layer_buffer_for_tile(bm, surface, tile) ==
    LET width == tile.screen_rect.size[1]
        found == BufferMapFind(bm, tile.screen_rect.size)
    IN  IF gpu_painting
        THEN [layer_buffer |-> None, buffer_map |-> bm, next_surface |-> surface]
        ELSE IF IsSome(found)
        THEN [layer_buffer |->
                  Some([Unwrap(found) EXCEPT !.rect = tile.page_rect,
                                             !.screen_pos = tile.screen_rect,
                                             !.painted_with_cpu = TRUE,
                                             !.content_age = tile.content_age]),
              buffer_map |-> BufferMapAfterFind(bm, tile.screen_rect.size),
              next_surface |-> surface]
        ELSE [layer_buffer |->
                  Some([native_surface |-> surface,
                        rect |-> tile.page_rect,
                        screen_pos |-> tile.screen_rect,
                        stride |-> width * 4,
                        painted_with_cpu |-> TRUE,
                        content_age |-> tile.content_age,
                        pixels |-> None]),
              buffer_map |-> bm,
              next_surface |-> surface + 1]

\* `i % self.worker_threads.len()` of the dispatch loop: the worker tile i
\* (from 0) is sent to.
dispatch_thread_id(i) == i % thread_count

\* Mutant: the collecting loop reads every buffer from the first worker.
collect_thread_id_first(i) == 0

\* Mutant: the collecting loop walks the workers in the opposite order.
collect_thread_id_reversed(i) == (thread_count - 1) - (i % thread_count)

\* `i % self.worker_threads.len()` of the collecting loop: the worker the
\* buffer at position i is read from.
collect_thread_id(i) == i % thread_count

PaintTile(thread_id, tile, layer_buffer, stacking_context) ==
    [type |-> "PaintTile", thread_id |-> thread_id, tile |-> tile,
     layer_buffer |-> layer_buffer, stacking_context |-> stacking_context]

\* The dispatch loop of PaintTask::paint from tile i on: the pool, the surface
\* counter and the workers' queues after the last paint_tile.
RECURSIVE dispatch_tiles(_, _, _, _, _, _)
dispatch_tiles(tiles, i, stacking_context, bm, surface, queues) ==
    IF i >= Len(tiles)
    THEN [buffer_map |-> bm, next_surface |-> surface, to_worker |-> queues]
    ELSE LET tile == tiles[i + 1]
             thread_id == dispatch_thread_id(i)
             got == find_or_create_layer_buffer_for_tile(bm, surface, tile)
         IN  dispatch_tiles(tiles, i + 1, stacking_context, got.buffer_map, got.next_surface,
                 [queues EXCEPT ![thread_id] =
                     Append(@, PaintTile(thread_id, tile, got.layer_buffer, stacking_context))])

\* Mutant: the epoch of the request is not compared.
epoch_matches_any(epoch) == TRUE

\* Mutant: the comparison is inverted, stale requests are the ones painted.
epoch_differs(epoch) == current_epoch # Some(epoch)

\* `self.current_epoch == Some(epoch)` of the Paint arm.
epoch_matches(epoch) == current_epoch = Some(epoch)

\* Mutant: the lookup never misses.
layer_found_always(layer_id) == TRUE

\* The lookup at the head of PaintTask::paint.
layer_found(layer_id) ==
    /\ IsSome(root_stacking_context)
    /\ IsSome(find_stacking_context_with_layer_id(
                  SceneTree(Unwrap(root_stacking_context)), layer_id))

\* One iteration of the loop over the requests, up to the first blocking read
\* of PaintTask::paint: a stale request or one whose layer is missing is
\* skipped, any other has all its tiles sent to the workers.
PaintRequest ==
    /\ pc = "paint"
    /\ req_i <= Len(msg.requests)
    /\ LET request == msg.requests[req_i]
           tiles == request.buffer_requests
       IN  IF epoch_matches(request.epoch) /\ layer_found(request.layer_id)
           THEN LET after == dispatch_tiles(tiles, 0,
                                 [scene |-> Unwrap(root_stacking_context),
                                  layer_id |-> request.layer_id],
                                 buffer_map, next_surface, to_worker)
                IN  /\ buffer_map' = after.buffer_map
                    /\ next_surface' = after.next_surface
                    /\ to_worker' = after.to_worker
                    /\ IF Len(tiles) = 0
                       THEN /\ replies' = Append(replies,
                                     [layer_id |-> request.layer_id, buffers |-> <<>>])
                            /\ contributed' = Append(contributed, 0)
                            /\ req_i' = req_i + 1
                            /\ pc' = "paint"
                            /\ UNCHANGED <<tile_i, new_buffers>>
                       ELSE /\ tile_i' = 0
                            /\ new_buffers' = <<>>
                            /\ pc' = "collect"
                            /\ UNCHANGED <<req_i, replies, contributed>>
           ELSE /\ req_i' = req_i + 1
                /\ contributed' = Append(contributed, 0)
                /\ pc' = "paint"
                /\ UNCHANGED <<buffer_map, next_surface, to_worker, replies, tile_i, new_buffers>>
    /\ UNCHANGED <<opt_vars, root_stacking_context, paint_permission, current_epoch,
                   used_buffer_count, exit_response_channel,
                   waiting_for_compositor_buffers_to_exit, from_worker, worker_state,
                   loaned, acked, exits_sent, shutdown_sent, shipped_total, returned_total,
                   msg, sent>>

\* Mutant: the collecting loop stops one buffer short when a request has more
\* than one tile.
CollectTileOneShort ==
    /\ pc = "collect"
    /\ LET request == msg.requests[req_i]
           thread_id == collect_thread_id(tile_i)
       IN  /\ from_worker[thread_id] # <<>>
           /\ from_worker' = [from_worker EXCEPT ![thread_id] = Tail(@)]
           /\ LET collected == Append(new_buffers, Head(from_worker[thread_id]))
              IN  IF tile_i + 2 < Len(request.buffer_requests)
                  THEN /\ new_buffers' = collected
                       /\ tile_i' = tile_i + 1
                       /\ UNCHANGED <<pc, req_i, replies, contributed>>
                  ELSE /\ replies' = Append(replies,
                                [layer_id |-> request.layer_id, buffers |-> collected])
                       /\ contributed' = Append(contributed, Len(collected))
                       /\ new_buffers' = <<>>
                       /\ tile_i' = 0
                       /\ req_i' = req_i + 1
                       /\ pc' = "paint"
    /\ UNCHANGED <<opt_vars, task_vars, to_worker, worker_state, env_vars, msg, sent>>

\* One get_painted_tile_buffer() of the collecting loop of PaintTask::paint:
\* blocks until worker i mod thread_count has replied. After the last one the
\* (layer_id, LayerBufferSet) pair is pushed on replies.
CollectTile ==
    /\ pc = "collect"
    /\ LET request == msg.requests[req_i]
           thread_id == collect_thread_id(tile_i)
       IN  /\ from_worker[thread_id] # <<>>
           /\ from_worker' = [from_worker EXCEPT ![thread_id] = Tail(@)]
           /\ LET collected == Append(new_buffers, Head(from_worker[thread_id]))
              IN  IF tile_i + 1 < Len(request.buffer_requests)
                  THEN /\ new_buffers' = collected
                       /\ tile_i' = tile_i + 1
                       /\ UNCHANGED <<pc, req_i, replies, contributed>>
                  ELSE /\ replies' = Append(replies,
                                [layer_id |-> request.layer_id, buffers |-> collected])
                       /\ contributed' = Append(contributed, Len(collected))
                       /\ new_buffers' = <<>>
                       /\ tile_i' = 0
                       /\ req_i' = req_i + 1
                       /\ pc' = "paint"
    /\ UNCHANGED <<opt_vars, task_vars, to_worker, worker_state, env_vars, msg, sent>>

\* Mutant: the replies are counted, not their buffers.
count_replies(reply_list) == Len(reply_list)

\* `for reply in replies.iter() { used_buffer_count += buffer_set.buffers.len() }`
RECURSIVE count_reply_buffers(_)
count_reply_buffers(reply_list) ==
    IF reply_list = <<>> THEN 0
    ELSE Len(Head(reply_list).buffers) + count_reply_buffers(Tail(reply_list))

RECURSIVE AllBuffers(_)
AllBuffers(reply_list) ==
    IF reply_list = <<>> THEN {}
    ELSE {Head(reply_list).buffers[i] : i \in 1..Len(Head(reply_list).buffers)}
         \cup AllBuffers(Tail(reply_list))

\* The end of the Paint arm: the loan counter grows by the buffers of every
\* reply and the replies go to the compositor under the current epoch. The
\* unwrap of an unset current_epoch panics.
FinishPaint ==
    /\ pc = "paint"
    /\ req_i > Len(msg.requests)
    /\ used_buffer_count' = used_buffer_count + count_reply_buffers(replies)
    /\ IF IsSome(current_epoch)
       THEN /\ sent' = Append(sent, AssignPaintedBuffersCall(Unwrap(current_epoch), replies,
                                                             msg.frame_tree_id))
            /\ loaned' = loaned \cup AllBuffers(replies)
            /\ shipped_total' = shipped_total + Cardinality(AllBuffers(replies))
            /\ pc' = "handled"
       ELSE /\ pc' = "panicked"
            /\ UNCHANGED <<sent, loaned, shipped_total>>
    /\ replies' = <<>>
    /\ req_i' = 0
    /\ UNCHANGED <<opt_vars, root_stacking_context, paint_permission, current_epoch,
                   buffer_map, exit_response_channel,
                   waiting_for_compositor_buffers_to_exit, tile_i, new_buffers, contributed,
                   worker_vars, acked, next_surface, exits_sent, shutdown_sent,
                   returned_total, msg>>

\* The lists of distinct buffers the compositor may hand back.
BufferLists(held) ==
    {l \in UNION {[1..k -> held] : k \in 0..Cardinality(held)} :
        \A i, j \in 1..Len(l) : i # j => l[i] # l[j]}

\* usize subtraction, kept as the mathematical difference: a negative result
\* is an underflow of the usize (a panic or a wrap-around, by the build).
UsizeSub(a, b) == a - b

\* Mutant: the buffers are inserted in list order, the first one first.
RECURSIVE insert_in_order(_, _)
insert_in_order(bm, unused_buffers) ==
    IF unused_buffers = <<>> THEN bm
    ELSE insert_in_order(BufferMapInsert(bm, Head(unused_buffers)), Tail(unused_buffers))

\* `for buffer in unused_buffers.into_iter().rev() { buffer_map.insert(..) }`
RECURSIVE insert_reversed(_, _)
insert_reversed(bm, unused_buffers) ==
    IF unused_buffers = <<>> THEN bm
    ELSE insert_reversed(BufferMapInsert(bm, unused_buffers[Len(unused_buffers)]),
                         SubSeq(unused_buffers, 1, Len(unused_buffers) - 1))

\* `response_channel.map(|channel| channel.send(()))`
send_ack(channel) == IF IsSome(channel) THEN <<Ack(Unwrap(channel))>> ELSE <<>>
\* Mutant: the ack channel is never signalled.
acked_with_nothing(channel) == acked

\* The ack channels signalled once `channel.send(())` has run on `channel`.
acked_with(channel) == IF IsSome(channel) THEN acked \cup {Unwrap(channel)} ELSE acked

\* Mutant: the drain ends at the first UnusedBuffer, whatever is still on loan.
first_buffers_returned(count) == waiting_for_compositor_buffers_to_exit

\* `waiting_for_compositor_buffers_to_exit && self.used_buffer_count == 0`
all_buffers_returned(count) == waiting_for_compositor_buffers_to_exit /\ count = 0

\* Msg::UnusedBuffer(unused_buffers)
UnusedBuffer(unused_buffers) ==
    /\ pc = "recv"
    /\ msg' = [type |-> "UnusedBuffer", unused_buffers |-> unused_buffers]
    /\ used_buffer_count' = UsizeSub(used_buffer_count, Len(unused_buffers))
    /\ buffer_map' = insert_reversed(buffer_map, unused_buffers)
    /\ loaned' = loaned \ {unused_buffers[i] : i \in 1..Len(unused_buffers)}
    /\ returned_total' = returned_total + Len(unused_buffers)
    /\ IF all_buffers_returned(used_buffer_count')
       THEN /\ sent' = send_ack(exit_response_channel)
            /\ acked' = acked_with(exit_response_channel)
            /\ pc' = "clear_buffers"
       ELSE /\ sent' = <<>>
            /\ pc' = "handled"
            /\ UNCHANGED acked
    /\ UNCHANGED <<opt_vars, root_stacking_context, paint_permission, current_epoch,
                   exit_response_channel, waiting_for_compositor_buffers_to_exit,
                   paint_vars, worker_vars, next_surface, exits_sent, shutdown_sent,
                   shipped_total>>

\* Msg::PaintPermissionGranted
PaintPermissionGranted ==
    /\ pc = "recv"
    /\ msg' = [type |-> "PaintPermissionGranted"]
    /\ paint_permission' = TRUE
    /\ sent' = initialize_layers(root_stacking_context, current_epoch)
    /\ pc' = "handled"
    /\ UNCHANGED <<opt_vars, root_stacking_context, current_epoch, buffer_map,
                   used_buffer_count, exit_response_channel,
                   waiting_for_compositor_buffers_to_exit, paint_vars, worker_vars, env_vars>>

\* Msg::PaintPermissionRevoked
PaintPermissionRevoked ==
    /\ pc = "recv"
    /\ msg' = [type |-> "PaintPermissionRevoked"]
    /\ paint_permission' = FALSE
    /\ sent' = <<>>
    /\ pc' = "handled"
    /\ UNCHANGED <<opt_vars, root_stacking_context, current_epoch, buffer_map,
                   used_buffer_count, exit_response_channel,
                   waiting_for_compositor_buffers_to_exit, paint_vars, worker_vars, env_vars>>

\* Msg::CollectReports(reports_chan)
CollectReports ==
    /\ pc = "recv"
    /\ msg' = [type |-> "CollectReports"]
    /\ sent' = <<Reports(BufferMapMem(buffer_map))>>
    /\ pc' = "handled"
    /\ UNCHANGED <<opt_vars, task_vars, paint_vars, worker_vars, env_vars>>

\* Mutant: a complete exit waits for the compositor's buffers as well.
should_wait_for_any_exit(exit_type) == used_buffer_count # 0

\* `should_wait_for_compositor_buffers` of the Exit arm.
should_wait_for_compositor_buffers(exit_type) ==
    IF exit_type = "Complete" THEN FALSE ELSE used_buffer_count # 0

\* Msg::Exit(response_channel, exit_type)
Exit(response_channel, exit_type) ==
    /\ pc = "recv"
    /\ exits_sent < MaxExits
    /\ exits_sent' = exits_sent + 1
    /\ msg' = [type |-> "Exit", response_channel |-> response_channel, exit_type |-> exit_type]
    /\ IF ~should_wait_for_compositor_buffers(exit_type)
       THEN /\ sent' = <<UnregisterReporter, NotifyExiting>> \o send_ack(response_channel)
            /\ acked' = acked_with(response_channel)
            /\ pc' = "clear_buffers"
            /\ UNCHANGED <<waiting_for_compositor_buffers_to_exit, exit_response_channel>>
       ELSE /\ sent' = <<UnregisterReporter, NotifyExiting>>
            /\ waiting_for_compositor_buffers_to_exit' = TRUE
            /\ exit_response_channel' = response_channel
            /\ pc' = "handled"
            /\ UNCHANGED acked
    /\ UNCHANGED <<opt_vars, root_stacking_context, paint_permission, current_epoch,
                   buffer_map, used_buffer_count, paint_vars, worker_vars,
                   loaned, next_surface, shutdown_sent, shipped_total, returned_total>>

\* ---------------------------------------------------------------- teardown
\* PaintTask::create after start() returns: destroy all the buffers.
ClearBuffers ==
    /\ pc = "clear_buffers"
    /\ buffer_map' = BufferMapClear(buffer_map)
    /\ pc' = "exit_workers"
    /\ UNCHANGED <<opt_vars, root_stacking_context, paint_permission, current_epoch,
                   used_buffer_count, exit_response_channel,
                   waiting_for_compositor_buffers_to_exit, paint_vars, worker_vars,
                   env_vars, msg, sent>>

\* Tell all the worker threads to shut down (WorkerThreadProxy::exit on each).
ExitWorkers ==
    /\ pc = "exit_workers"
    /\ to_worker' = [w \in Workers |-> Append(to_worker[w], [type |-> "Exit"])]
    /\ pc' = "drop_paint_task"
    /\ UNCHANGED <<opt_vars, task_vars, paint_vars, from_worker, worker_state, env_vars,
                   msg, sent>>

\* The end of the inner block of PaintTask::create: paint_task goes out of
\* scope, and with it the native graphics context it owns.
DropPaintTask ==
    /\ pc = "drop_paint_task"
    /\ pc' = "shutdown"
    /\ UNCHANGED <<opt_vars, task_vars, paint_vars, worker_vars, env_vars, msg, sent>>

\* native_graphics_context has been dropped with the paint task.
native_graphics_context_dropped == pc \in {"shutdown", "done"}

\* Mutant: the shutdown channel is signalled before the workers are told to exit.
ShutdownSendEarly ==
    /\ pc \in {"exit_workers", "shutdown"}
    /\ shutdown_sent' = TRUE
    /\ pc' = "done"
    /\ UNCHANGED <<opt_vars, task_vars, paint_vars, worker_vars, loaned, acked,
                   next_surface, exits_sent, shipped_total, returned_total, msg, sent>>

\* shutdown_chan.send(())
ShutdownSend ==
    /\ pc = "shutdown"
    /\ shutdown_sent' = TRUE
    /\ pc' = "done"
    /\ UNCHANGED <<opt_vars, task_vars, paint_vars, worker_vars, loaned, acked,
                   next_surface, exits_sent, shipped_total, returned_total, msg, sent>>

\* ----------------------------------------------------------------- workers
\* WorkerThread::create_layer_buffer_for_painted_tile: the buffer replied for
\* a tile painted by worker w; None when the unwrap of the supplied buffer fails.
create_layer_buffer_for_painted_tile(w, m, surface) ==
    LET painted == Some([tile |-> m.tile.page_rect, worker |-> w])
    IN  IF ~gpu_painting
        THEN IF IsSome(m.layer_buffer)
             THEN Some([Unwrap(m.layer_buffer) EXCEPT !.pixels = painted])
             ELSE None
        ELSE Some([native_surface |-> surface,
                   rect |-> m.tile.page_rect,
                   screen_pos |-> m.tile.screen_rect,
                   stride |-> m.tile.screen_rect.size[1] * 4,
                   painted_with_cpu |-> FALSE,
                   content_age |-> m.tile.content_age,
                   pixels |-> painted])

\* WorkerThread::main, the PaintTile arm.
WorkerPaintTile(w) ==
    /\ worker_state[w] = "running"
    /\ to_worker[w] # <<>>
    /\ Head(to_worker[w]).type = "PaintTile"
    /\ LET buffer == create_layer_buffer_for_painted_tile(w, Head(to_worker[w]), next_surface)
       IN  /\ to_worker' = [to_worker EXCEPT ![w] = Tail(@)]
           /\ IF IsSome(buffer)
              THEN /\ from_worker' = [from_worker EXCEPT ![w] = Append(@, Unwrap(buffer))]
                   /\ UNCHANGED worker_state
              ELSE /\ worker_state' = [worker_state EXCEPT ![w] = "panicked"]
                   /\ UNCHANGED from_worker
    /\ next_surface' = IF gpu_painting THEN next_surface + 1 ELSE next_surface
    /\ UNCHANGED <<opt_vars, task_vars, paint_vars, loaned, acked, exits_sent,
                   shutdown_sent, shipped_total, returned_total, pc, msg, sent>>

\* WorkerThread::main, the Exit arm.
WorkerExit(w) ==
    /\ worker_state[w] = "running"
    /\ to_worker[w] # <<>>
    /\ Head(to_worker[w]).type = "Exit"
    /\ to_worker' = [to_worker EXCEPT ![w] = Tail(@)]
    /\ worker_state' = [worker_state EXCEPT ![w] = "exited"]
    /\ UNCHANGED <<opt_vars, task_vars, paint_vars, from_worker, env_vars, pc, msg, sent>>

\* WorkerThread::main, `self.receiver.recv().unwrap()` once the paint task has
\* panicked: unwinding drops the PaintTask and with it the sending end of the
\* worker's channel, recv() returns Err on the empty channel and the unwrap
\* panics the worker.
WorkerDisconnected(w) ==
    /\ pc = "panicked"
    /\ worker_state[w] = "running"
    /\ to_worker[w] = <<>>
    /\ worker_state' = [worker_state EXCEPT ![w] = "panicked"]
    /\ UNCHANGED <<opt_vars, task_vars, paint_vars, to_worker, from_worker, env_vars,
                   pc, msg, sent>>

\* ------------------------------------------------------------ specification
Next ==
    \/ NextMessage
    \/ \E epoch \in Epochs : PaintInit(epoch, SceneAt(epoch))
    \/ pc = "recv" /\ \E m \in PaintMessagesUpTo[MaxShipped - shipped_total] :
                          Paint(m.requests, m.frame_tree_id)
    \/ PaintRequest
    \/ CollectTile
    \/ FinishPaint
    \/ pc = "recv" /\ \E unused_buffers \in BufferLists(loaned) : UnusedBuffer(unused_buffers)
    \/ PaintPermissionGranted
    \/ PaintPermissionRevoked
    \/ CollectReports
    \/ \E exit_type \in ExitTypes : Exit(Some(exits_sent + 1), exit_type)
    \/ ClearBuffers
    \/ ExitWorkers
    \/ DropPaintTask
    \/ ShutdownSend
    \/ \E w \in Workers : WorkerPaintTile(w)
    \/ \E w \in Workers : WorkerExit(w)
    \/ \E w \in Workers : WorkerDisconnected(w)

Spec == Init /\ [][Next]_vars

\* The threads are scheduled fairly: the paint task goes on with the steps
\* that follow its loop, and a worker whose channel holds a message reads it.
TeardownStep == ClearBuffers \/ ExitWorkers \/ DropPaintTask \/ ShutdownSend
WorkerStep(w) == w \in Workers /\ (WorkerPaintTile(w) \/ WorkerExit(w))
SpecFair ==
    /\ Spec
    /\ WF_vars(TeardownStep)
    /\ \A w \in 0..(MaxThreads - 1) : WF_vars(WorkerStep(w))

\* --------------------------------------- painting and returning on its own
\* The message loop in CPU mode with one scene, the permission to paint and
\* Paint messages of one request for the layer of the scene: buffers go out,
\* come back in any order and are reused.
ReusePaintMessages ==
    {m \in PaintMessages :
        /\ Len(m.requests) = 1
        /\ m.requests[1].epoch = 1
        /\ m.requests[1].layer_id = 1
        /\ Len(m.requests[1].buffer_requests) > 0
        /\ m.frame_tree_id = 7}

InitReuse == Init /\ ~gpu_painting

NextReuse ==
    \/ NextMessage
    \/ pc = "recv" /\ ~IsSome(current_epoch) /\ PaintInit(1, SceneAt(1))
    \/ pc = "recv" /\ ~paint_permission /\ PaintPermissionGranted
    \/ pc = "recv" /\ paint_permission /\ IsSome(current_epoch)
           /\ \E m \in ReusePaintMessages : Paint(m.requests, m.frame_tree_id)
    \/ PaintRequest
    \/ CollectTile
    \/ FinishPaint
    \/ pc = "recv" /\ \E unused_buffers \in BufferLists(loaned) : UnusedBuffer(unused_buffers)
    \/ \E w \in Workers : WorkerPaintTile(w)

SpecReuse == InitReuse /\ [][NextReuse]_vars

\* ------------------------------------------- the layer walk on its own
\* Scene trees of bounded depth with at most two children per node. The node
\* numbered n has the children 2n and 2n + 1; a node's PaintLayer, if it has
\* one, carries the node's number as its id. Bounds origins are half a pixel
\* apart so that rounding shows.
BoundsOrigins == {<<0, 0>>, <<30, 90>>}
OverflowOriginOf(n) == <<-(10 * n), 45 * n>>
OverflowSizeOf(n) == <<600 + 30 * n, 6000>>

RECURSIVE SceneTreesAt(_, _)
SceneTreesAt(n, depth) ==
    LET kid_lists ==
            IF depth = 1 THEN {<<>>}
            ELSE {<<>>}
                 \cup {<<k>> : k \in SceneTreesAt(2 * n, depth - 1)}
                 \cup {<<k, l>> : k \in SceneTreesAt(2 * n, depth - 1),
                                  l \in SceneTreesAt(2 * n + 1, depth - 1)}
    IN  {Ctx(layer, borigin, OverflowOriginOf(n), OverflowSizeOf(n), <<n>>, n % 2 = 0, kids) :
            layer \in {None, PaintLayer(n)}, borigin \in BoundsOrigins, kids \in kid_lists}

SceneTrees == SceneTreesAt(1, MaxDepth)

\* PaintTask::initialize_layers on a root stacking context: the properties
\* list handed to initialize_layers_for_pipeline.
WalkScene(stacking_context) ==
    /\ pc = "recv"
    /\ msg' = [type |-> "scene", stacking_context |-> stacking_context]
    /\ sent' = <<InitializeLayersCall(
                     build(<<>>, stacking_context, ZERO_POINT, Identity, Identity, None),
                     1)>>
    /\ pc' = "handled"
    /\ UNCHANGED <<opt_vars, task_vars, paint_vars, worker_vars, env_vars>>

InitLayers == Init /\ ~gpu_painting /\ paint_threads = 1

NextLayers ==
    \/ NextMessage
    \/ pc = "recv" /\ \E stacking_context \in SceneTrees : WalkScene(stacking_context)

SpecLayers == InitLayers /\ [][NextLayers]_vars

\* ================================================================== claims
AssignCalls == SelectSeq(sent, LAMBDA e : e.op = "assign_painted_buffers")
CompositorCalls == SelectSeq(sent, LAMBDA e : e.to = "compositor")
PainterReadyCount == Len(SelectSeq(sent, LAMBDA e : e.op = "PainterReady"))

\* The Paint message being handled has been handled to its end.
HandledPaint == pc = "handled" /\ msg.type = "Paint"
\* ... and was painted: the task had permission and was not waiting to exit.
PaintedPaint == HandledPaint /\ paint_permission /\ ~waiting_for_compositor_buffers_to_exit

Stale(request) == current_epoch # Some(request.epoch)
\* The lookup of the request's layer in the current scene finds a stacking context.
LayerPresent(request) ==
    /\ IsSome(root_stacking_context)
    /\ IsSome(find_stacking_context_with_layer_id(
                  SceneTree(Unwrap(root_stacking_context)), request.layer_id))

RECURSIVE SumSeq(_)
SumSeq(q) == IF q = <<>> THEN 0 ELSE Head(q) + SumSeq(Tail(q))

RECURSIVE ReplyBufferCount(_)
ReplyBufferCount(reply_list) ==
    IF reply_list = <<>> THEN 0
    ELSE Len(Head(reply_list).buffers) + ReplyBufferCount(Tail(reply_list))

\* C1 as stated: in the reply of a Paint message, every request with a stale
\* epoch contributes no buffer and every request whose epoch is the current one
\* contributes exactly len(buffer_requests) buffers.
C1_EpochFilterAsStated ==
    (HandledPaint /\ Len(AssignCalls) > 0) =>
        /\ Len(contributed) = Len(msg.requests)
        /\ \A k \in 1..Len(msg.requests) :
              contributed[k] = IF Stale(msg.requests[k]) THEN 0
                               ELSE Len(msg.requests[k].buffer_requests)

\* C1 amended: a Paint message handled with paint permission and outside a
\* drain is answered by one reply in which every stale request contributes no
\* buffer, every request of the current epoch whose layer is in the scene
\* contributes exactly len(buffer_requests) buffers and one whose layer is
\* missing contributes none; a Paint message handled without permission or
\* during a drain gets no reply.
C1_EpochFilter ==
    /\ (HandledPaint /\ ~PaintedPaint) => (Len(AssignCalls) = 0 /\ contributed = <<>>)
    /\ PaintedPaint =>
          /\ Len(AssignCalls) = 1
          /\ Len(contributed) = Len(msg.requests)
          /\ ReplyBufferCount(AssignCalls[1].replies) = SumSeq(contributed)
          /\ \A k \in 1..Len(msg.requests) :
                contributed[k] =
                    IF Stale(msg.requests[k]) THEN 0
                    ELSE IF LayerPresent(msg.requests[k])
                         THEN Len(msg.requests[k].buffer_requests)
                         ELSE 0

\* A reply that holds the buffers of a request of the current epoch next to a
\* stale request that contributed nothing.
C1_Witness ==
    /\ PaintedPaint
    /\ Len(msg.requests) = 2
    /\ \E j, k \in 1..2 :
          /\ Stale(msg.requests[j]) /\ Len(msg.requests[j].buffer_requests) > 0
          /\ ~Stale(msg.requests[k]) /\ contributed[k] = 2

\* C2: the loan counter is the number of buffers shipped minus the number of
\* buffers returned in UnusedBuffer messages, and is never negative.
C2_LoanConservation ==
    /\ used_buffer_count = shipped_total - returned_total
    /\ used_buffer_count >= 0

\* Buffers were shipped, some came back and some are still on loan.
C2_Witness ==
    /\ shipped_total = 3
    /\ returned_total = 2
    /\ used_buffer_count = 1
    /\ pc = "handled" /\ msg.type = "UnusedBuffer"

\* The message loop of PaintTask::start has been left.
Terminated == pc \in {"clear_buffers", "exit_workers", "drop_paint_task", "shutdown", "done"}
\* A drain is in progress or was: Exit(PipelineOnly) was handled with loans out.
Draining == waiting_for_compositor_buffers_to_exit
StoredAckSignalled == IsSome(exit_response_channel) /\ Unwrap(exit_response_channel) \in acked

C4_DrainIgnoresAsStated ==
    [][(Draining /\ pc = "recv" /\ msg'.type \in {"PaintInit", "Paint"}) =>
           /\ UNCHANGED <<root_stacking_context, current_epoch, used_buffer_count,
                          buffer_map, to_worker>>
           /\ sent' = <<>>]_vars

\* C4 amended: during a drain a PaintInit or Paint message is handled in one
\* step that dispatches no tile, calls nothing on the compositor and leaves the
\* loan counter and the pool unchanged; Paint changes no coordinator state,
\* PaintInit still replaces the current epoch and scene; and either message
\* sends PainterReady to the supervisor when paint permission is not granted,
\* nothing otherwise.
C4_DrainIgnores ==
    [][(Draining /\ pc = "recv" /\ msg'.type \in {"PaintInit", "Paint"}) =>
           /\ pc' = "handled"
           /\ UNCHANGED <<used_buffer_count, buffer_map, paint_permission, worker_vars,
                          loaned, exit_response_channel,
                          waiting_for_compositor_buffers_to_exit>>
           /\ sent' = IF paint_permission THEN <<>> ELSE <<PainterReady>>
           /\ msg'.type = "Paint" => UNCHANGED <<current_epoch, root_stacking_context>>
           /\ msg'.type = "PaintInit" =>
                 /\ current_epoch' = Some(msg'.epoch)
                 /\ root_stacking_context' = Some(msg'.stacking_context)]_vars

\* During a drain, with paint permission, a Paint message that asks for tiles
\* of a layer of the current scene under the current epoch was dropped.
C4_Witness ==
    /\ Draining /\ paint_permission
    /\ pc = "handled" /\ msg.type = "Paint"
    /\ \E k \in 1..Len(msg.requests) :
          /\ ~Stale(msg.requests[k]) /\ LayerPresent(msg.requests[k])
          /\ Len(msg.requests[k].buffer_requests) > 0
    /\ sent = <<>>
    /\ \A w \in Workers : to_worker[w] = <<>>

\* C5: every Exit message first unregisters the memory reporter and calls
\* notify_paint_task_exiting; when its mode is Complete or nothing is on loan
\* the ack channel is signalled and the loop is left while handling that message.
C5_ExitImmediate ==
    msg.type = "Exit" =>
        /\ Len(sent) >= 2
        /\ SubSeq(sent, 1, 2) = <<UnregisterReporter, NotifyExiting>>
        /\ (msg.exit_type = "Complete" \/ used_buffer_count = 0) =>
              /\ Terminated
              /\ sent = <<UnregisterReporter, NotifyExiting,
                          Ack(Unwrap(msg.response_channel))>>
              /\ Unwrap(msg.response_channel) \in acked

\* A complete exit with buffers on loan: acknowledged and the loop left at once.
C5_Witness ==
    /\ msg.type = "Exit" /\ msg.exit_type = "Complete"
    /\ used_buffer_count > 0
    /\ pc = "clear_buffers"
    /\ Unwrap(msg.response_channel) \in acked

\* The requests of the Paint message being handled that are painted: those of
\* the current epoch whose layer the lookup finds.
PaintedRequests == SelectSeq(msg.requests, LAMBDA r : ~Stale(r) /\ LayerPresent(r))

\* C6: in the reply of a Paint message the entries are those of the painted
\* requests in the order the requests were listed, and in each the buffer at
\* position i (from 0) is the one painted for tile i of the request, by worker
\* i mod thread_count.
C6_TileMapping ==
    PaintedPaint =>
        /\ Len(AssignCalls) = 1
        /\ LET reply_list == AssignCalls[1].replies
           IN  /\ Len(reply_list) = Len(PaintedRequests)
               /\ \A k \in 1..Len(reply_list) :
                     LET tiles == PaintedRequests[k].buffer_requests
                         buffers == reply_list[k].buffers
                     IN  /\ reply_list[k].layer_id = PaintedRequests[k].layer_id
                         /\ Len(buffers) = Len(tiles)
                         /\ \A i \in 0..(Len(tiles) - 1) :
                               /\ buffers[i + 1].rect = tiles[i + 1].page_rect
                               /\ buffers[i + 1].screen_pos = tiles[i + 1].screen_rect
                               /\ buffers[i + 1].pixels =
                                     Some([tile |-> tiles[i + 1].page_rect,
                                           worker |-> i % thread_count])

\* Three tiles over two workers: worker 0 painted tiles 0 and 2, worker 1 tile 1.
C6_Witness ==
    /\ PaintedPaint
    /\ thread_count = 2
    /\ Len(AssignCalls) = 1
    /\ \E k \in 1..Len(AssignCalls[1].replies) :
          LET buffers == AssignCalls[1].replies[k].buffers
          IN  /\ Len(buffers) = 3
              /\ Unwrap(buffers[1].pixels).worker = 0
              /\ Unwrap(buffers[2].pixels).worker = 1
              /\ Unwrap(buffers[3].pixels).worker = 0
              /\ Unwrap(buffers[3].pixels).tile = 3

\* C7: the current epoch changes only when a PaintInit message sets it, and
\* every assign_painted_buffers call is made while handling a Paint message,
\* with the current epoch and the frame tree id of that message.
C7_ReplyEpochAndFrame ==
    [][/\ current_epoch' # current_epoch =>
             (pc = "recv" /\ msg'.type = "PaintInit" /\ current_epoch' = Some(msg'.epoch))
       /\ \A k \in 1..Len(AssignCalls') :
             /\ msg'.type = "Paint"
             /\ IsSome(current_epoch')
             /\ AssignCalls'[k].epoch = Unwrap(current_epoch')
             /\ AssignCalls'[k].frame_tree_id = msg'.frame_tree_id
             /\ AssignCalls'[k].id = PipelineId]_vars

\* A reply stamped with epoch 2 and frame tree id 8 to a Paint message that
\* also held a request of epoch 1.
C7_Witness ==
    /\ PaintedPaint
    /\ current_epoch = Some(2)
    /\ msg.frame_tree_id = 8
    /\ Len(AssignCalls) = 1
    /\ AssignCalls[1].epoch = 2 /\ AssignCalls[1].frame_tree_id = 8
    /\ AssignCalls[1].replies # <<>>
    /\ \E k \in 1..Len(msg.requests) : msg.requests[k].epoch = 1

\* Every request of the Paint message being handled is stale.
AllStale == Len(msg.requests) > 0 /\ \A k \in 1..Len(msg.requests) : Stale(msg.requests[k])
\* The number of tiles asked for by the painted requests of the message.
RECURSIVE TilesAsked(_)
TilesAsked(requests) ==
    IF requests = <<>> THEN 0
    ELSE (IF ~Stale(Head(requests)) /\ LayerPresent(Head(requests))
          THEN Len(Head(requests).buffer_requests) ELSE 0) + TilesAsked(Tail(requests))

\* C8 as stated: a Paint message all of whose requests are stale is handled
\* without a call of assign_painted_buffers and without a buffer put on loan.
C8_StaleDropAsStated ==
    (HandledPaint /\ AllStale) =>
        /\ Len(AssignCalls) = 0
        /\ SumSeq(contributed) = 0

\* C8 amended: while a Paint message all of whose requests are stale is
\* handled, no tile is dispatched and the loan counter, the pool and the set of
\* buffers the compositor holds stay as they are; handled with paint permission
\* and outside a drain it ends, when a current epoch is set, in exactly one
\* assign_painted_buffers call with an empty reply list, the current epoch and
\* the frame tree id of the message, and, when no epoch was ever set, in a
\* panic of the task with nothing sent.
C8_StaleDrop ==
    [][(msg'.type = "Paint" /\ pc' # "recv" /\ pc # "handled" /\ pc # "panicked"
            /\ \A k \in 1..Len(msg'.requests) : current_epoch # Some(msg'.requests[k].epoch)) =>
           /\ UNCHANGED <<used_buffer_count, buffer_map, to_worker, loaned, shipped_total,
                          current_epoch>>
           /\ (pc = "paint" /\ pc' = "handled") =>
                 /\ IsSome(current_epoch)
                 /\ sent' = <<AssignPaintedBuffersCall(Unwrap(current_epoch), <<>>,
                                                         msg'.frame_tree_id)>>
           /\ (pc = "paint" /\ req_i > Len(msg.requests) /\ current_epoch = None) =>
                 (pc' = "panicked" /\ sent' = <<>>)
           /\ (pc = "paint" /\ req_i > Len(msg.requests) /\ IsSome(current_epoch)) =>
                 pc' = "handled"]_vars

\* Two stale requests that ask for tiles, answered by one empty reply.
C8_Witness ==
    /\ PaintedPaint /\ AllStale
    /\ Len(msg.requests) = 2
    /\ \A k \in 1..2 : Len(msg.requests[k].buffer_requests) > 0
    /\ Len(AssignCalls) = 1
    /\ AssignCalls[1].replies = <<>>
    /\ used_buffer_count > 0

\* C9: the step that handles a request of the current epoch whose layer the
\* lookup does not find dispatches no tile, adds no reply entry and changes
\* neither loan counter nor pool; and the Paint message ends with the loan
\* counter raised by, and the reply holding, exactly the tiles the painted
\* requests asked for, one entry per painted request.
C9_MissingLayer ==
    [][/\ (pc = "paint" /\ req_i' = req_i + 1
              /\ ~Stale(msg.requests[req_i]) /\ ~LayerPresent(msg.requests[req_i])) =>
             /\ UNCHANGED <<to_worker, from_worker, replies, used_buffer_count, buffer_map,
                            next_surface, sent>>
             /\ contributed' = Append(contributed, 0)
       /\ (pc = "paint" /\ pc' = "handled") =>
             /\ used_buffer_count' = used_buffer_count + TilesAsked(msg.requests)
             /\ Len(AssignCalls') = 1
             /\ Len(AssignCalls'[1].replies) = Len(PaintedRequests)
             /\ ReplyBufferCount(AssignCalls'[1].replies) = TilesAsked(msg.requests)
             /\ shipped_total' = shipped_total + TilesAsked(msg.requests)]_vars

\* A request for layer 2 under the current epoch, whose scene does not hold
\* layer 2, next to a request for layer 1 that was painted in full.
C9_Witness ==
    /\ PaintedPaint
    /\ Len(msg.requests) = 2
    /\ \E j, k \in 1..2 :
          /\ ~Stale(msg.requests[j]) /\ ~LayerPresent(msg.requests[j])
          /\ Len(msg.requests[j].buffer_requests) > 0
          /\ contributed[j] = 0
          /\ ~Stale(msg.requests[k]) /\ LayerPresent(msg.requests[k])
          /\ Len(msg.requests[k].buffer_requests) = 2
          /\ contributed[k] = 2
    /\ Len(AssignCalls) = 1
    /\ Len(AssignCalls[1].replies) = 1
    /\ Len(AssignCalls[1].replies[1].buffers) = 2

\* C10: a PaintInit message handled without paint permission has replaced the
\* current epoch and scene by its own and has sent PainterReady with the
\* pipeline id to the constellation once, and nothing else.
C10_PaintInitNoPermission ==
    (pc = "handled" /\ msg.type = "PaintInit" /\ ~paint_permission) =>
        /\ current_epoch = Some(msg.epoch)
        /\ root_stacking_context = Some(msg.stacking_context)
        /\ sent = <<PainterReady>>
        /\ PainterReadyCount = 1
        /\ sent[1].id = PipelineId
        /\ Len(CompositorCalls) = 0

\* After buffers were painted under an earlier scene and the permission was
\* revoked, a PaintInit with epoch 2 was answered by PainterReady.
C10_Witness ==
    /\ pc = "handled" /\ msg.type = "PaintInit" /\ ~paint_permission
    /\ shipped_total > 0
    /\ msg.epoch = 2 /\ current_epoch = Some(2)
    /\ sent = <<PainterReady>>

\* Everything but the permission flag, the message being handled and what was
\* sent for it.
AllButPermission ==
    <<opt_vars, root_stacking_context, current_epoch, buffer_map, used_buffer_count,
      exit_response_channel, waiting_for_compositor_buffers_to_exit, paint_vars,
      worker_vars, env_vars>>

\* C11: PaintPermissionGranted sets the flag and, exactly when a scene has been
\* received, publishes the layers of that scene in one
\* initialize_layers_for_pipeline call tagged with the current epoch;
\* PaintPermissionRevoked clears the flag, sends nothing and changes nothing else.
C11_Permission ==
    [][/\ (pc = "recv" /\ msg'.type = "PaintPermissionGranted") =>
             /\ paint_permission' = TRUE
             /\ pc' = "handled"
             /\ UNCHANGED AllButPermission
             /\ root_stacking_context = None => sent' = <<>>
             /\ IsSome(root_stacking_context) =>
                   /\ Len(sent') = 1
                   /\ sent'[1].to = "compositor"
                   /\ sent'[1].op = "initialize_layers_for_pipeline"
                   /\ sent'[1].id = PipelineId
                   /\ IsSome(current_epoch) /\ sent'[1].epoch = Unwrap(current_epoch)
                   /\ sent'[1].properties =
                          build(<<>>, SceneTree(Unwrap(root_stacking_context)),
                                ZERO_POINT, Identity, Identity, None)
       /\ (pc = "recv" /\ msg'.type = "PaintPermissionRevoked") =>
             /\ paint_permission' = FALSE
             /\ pc' = "handled"
             /\ sent' = <<>>
             /\ UNCHANGED AllButPermission]_vars

\* The permission was granted after the scene of epoch 2 had been received:
\* its two-level tree was published as one layer under epoch 2.
C11_Witness ==
    /\ pc = "handled" /\ msg.type = "PaintPermissionGranted"
    /\ paint_permission
    /\ current_epoch = Some(2)
    /\ Len(sent) = 1
    /\ sent[1].op = "initialize_layers_for_pipeline"
    /\ sent[1].epoch = 2
    /\ Len(sent[1].properties) = 1

\* Exit has been sent to worker w: it is in its queue or the worker took it.
ExitSentTo(w) ==
    \/ worker_state[w] = "exited"
    \/ \E i \in 1..Len(to_worker[w]) : to_worker[w][i].type = "Exit"

PoolCleared == buffer_map.buffers = <<>>

\* C12: once the loop is left the pool is cleared first, Exit is sent to every
\* worker only after that, and the shutdown channel is signalled only after both.
C12_TerminationOrder ==
    /\ (\E w \in Workers : ExitSentTo(w)) =>
           /\ pc \in {"drop_paint_task", "shutdown", "done"}
           /\ PoolCleared
           /\ \A w \in Workers : ExitSentTo(w)
    /\ pc \in {"exit_workers", "drop_paint_task", "shutdown", "done"} => PoolCleared
    /\ shutdown_sent =>
           /\ pc = "done"
           /\ PoolCleared
           /\ \A w \in Workers : ExitSentTo(w)
    /\ pc = "done" => shutdown_sent

\* The loop was left on the UnusedBuffer message that put the last buffers on
\* loan back in the pool; the pool is empty, both workers were told to exit
\* and the shutdown channel is signalled.
C12_Witness ==
    /\ pc = "done" /\ shutdown_sent
    /\ msg.type = "UnusedBuffer" /\ Len(msg.unused_buffers) >= 2
    /\ PoolCleared
    /\ thread_count = 2
    /\ \A w \in Workers : ExitSentTo(w)

AfterPoolClear == pc \in {"exit_workers", "drop_paint_task", "shutdown", "done"}

\* C13 as stated: the loop is left only with the loans drained, no Exit ack is
\* signalled before the pool has been cleared, the graphics context is dropped
\* with the pool cleared and before the workers are told to stop, and all of
\* it precedes the shutdown signal.
C13_ShutdownOrderAsStated ==
    /\ Terminated => used_buffer_count = 0
    /\ acked # {} => (AfterPoolClear /\ PoolCleared)
    /\ native_graphics_context_dropped => PoolCleared
    /\ (\E w \in Workers : ExitSentTo(w)) => native_graphics_context_dropped
    /\ shutdown_sent => \A w \in Workers : ExitSentTo(w)

\* C13 amended: the loop is left on an UnusedBuffer message that ends a drain
\* with no loan left, or on an Exit message that is Complete or finds no loan,
\* and the ack channel of that exit is signalled before the loop is left, so
\* before the pool is cleared; then the pool is cleared, then Exit is sent to
\* every worker, then the paint task and its graphics context are dropped,
\* with the pool cleared, and only then is the shutdown channel signalled.
C13_ShutdownOrder ==
    /\ Terminated =>
           /\ msg.type \in {"Exit", "UnusedBuffer"}
           /\ msg.type = "UnusedBuffer" =>
                  (Draining /\ used_buffer_count = 0 /\ StoredAckSignalled)
           /\ msg.type = "Exit" =>
                  /\ msg.exit_type = "Complete" \/ used_buffer_count = 0
                  /\ Unwrap(msg.response_channel) \in acked
    /\ AfterPoolClear => PoolCleared
    /\ (\E w \in Workers : ExitSentTo(w)) => (AfterPoolClear /\ pc # "exit_workers")
    /\ native_graphics_context_dropped => (PoolCleared /\ \A w \in Workers : ExitSentTo(w))
    /\ shutdown_sent => native_graphics_context_dropped

\* A complete exit with a buffer still on loan, run to the shutdown signal.
C13_Witness ==
    /\ pc = "done" /\ shutdown_sent
    /\ msg.type = "Exit" /\ msg.exit_type = "Complete"
    /\ used_buffer_count > 0
    /\ Unwrap(msg.response_channel) \in acked
    /\ PoolCleared

\* ---- the layer walk: the scene walked and the properties list published
WalkedScene == pc = "handled" /\ msg.type = "scene"
PublishedProperties == sent[1].properties

\* The node numbers of a full tree of the given depth in pre-order.
RECURSIVE PreOrderNumbers(_, _)
PreOrderNumbers(n, depth) ==
    IF depth = 0 THEN <<>>
    ELSE <<n>> \o PreOrderNumbers(2 * n, depth - 1) \o PreOrderNumbers(2 * n + 1, depth - 1)

RECURSIVE HasNode(_, _)
RECURSIVE NodeAt(_, _)
HasNode(tree, n) ==
    IF n = 1 THEN TRUE
    ELSE HasNode(tree, n \div 2) /\ Len(NodeAt(tree, n \div 2).children) >= (n % 2) + 1
NodeAt(tree, n) ==
    IF n = 1 THEN tree ELSE NodeAt(tree, n \div 2).children[(n % 2) + 1]

HasLayer(tree, n) == HasNode(tree, n) /\ IsSome(NodeAt(tree, n).layer)

\* The id of the nearest proper ancestor of node n that has a PaintLayer.
RECURSIVE NearestLayerAncestor(_, _)
NearestLayerAncestor(tree, n) ==
    IF n = 1 THEN None
    ELSE IF HasLayer(tree, n \div 2) THEN Some(n \div 2)
    ELSE NearestLayerAncestor(tree, n \div 2)

\* C14: the ids of the published LayerProperties are those of the nodes with a
\* PaintLayer in the pre-order of the scene, and every parent_id is None or
\* the id of the nearest ancestor with a PaintLayer, which is an earlier entry.
C14_LayerProjection ==
    WalkedScene =>
        LET tree == msg.stacking_context
            props == PublishedProperties
        IN  /\ [k \in 1..Len(props) |-> props[k].id] =
                   SelectSeq(PreOrderNumbers(1, MaxDepth), LAMBDA n : HasLayer(tree, n))
            /\ \A k \in 1..Len(props) :
                  /\ props[k].parent_id = NearestLayerAncestor(tree, props[k].id)
                  /\ \/ props[k].parent_id = None
                     \/ \E j \in 1..(k - 1) : props[k].parent_id = Some(props[j].id)

\* Layers at nodes 1, 4, 5 and 3 with a layerless node 2 between 1 and its
\* grandchildren: four entries, those of 4 and 5 with parent 1.
C14_Witness ==
    /\ WalkedScene
    /\ ~HasLayer(msg.stacking_context, 2)
    /\ [k \in 1..Len(PublishedProperties) |-> PublishedProperties[k].id] = <<1, 4, 5, 3>>
    /\ PublishedProperties[2].parent_id = Some(1)
    /\ PublishedProperties[3].parent_id = Some(1)

\* The bounds origins of the consecutive layerless ancestors of node n, up to
\* its nearest ancestor with a PaintLayer or to the root, added up.
RECURSIVE LayerlessOffsetAbove(_, _)
LayerlessOffsetAbove(tree, n) ==
    IF n = 1 THEN <<0, 0>>
    ELSE IF HasLayer(tree, n \div 2) THEN <<0, 0>>
    ELSE LET above == LayerlessOffsetAbove(tree, n \div 2)
             origin == NodeAt(tree, n \div 2).bounds_origin
         IN  <<above[1] + origin[1], above[2] + origin[2]>>

\* C20 as stated: every published layer has as origin exactly the sum of the
\* bounds origins of its consecutive layerless ancestors, its own bounds origin
\* and its own overflow origin, and as size exactly its overflow size (a pixel
\* being AU_PER_PX app units), with the nearest ancestor with a PaintLayer as
\* parent_id.
C20_LayerPositionAsStated ==
    WalkedScene =>
        LET tree == msg.stacking_context
            props == PublishedProperties
        IN  \A k \in 1..Len(props) :
               LET n == props[k].id
                   node == NodeAt(tree, n)
                   above == LayerlessOffsetAbove(tree, n)
               IN  /\ props[k].rect.origin[1] * AU_PER_PX =
                          above[1] + node.bounds_origin[1] + node.overflow_origin[1]
                   /\ props[k].rect.origin[2] * AU_PER_PX =
                          above[2] + node.bounds_origin[2] + node.overflow_origin[2]
                   /\ props[k].rect.size[1] * AU_PER_PX = node.overflow_size[1]
                   /\ props[k].rect.size[2] * AU_PER_PX = node.overflow_size[2]
                   /\ props[k].parent_id = NearestLayerAncestor(tree, n)

\* C20 amended: every published layer has, in device pixels, the origin that is the
\* sum of the bounds origins of its consecutive layerless ancestors, its own
\* bounds origin and its own overflow origin, rounded once, the size of its
\* overflow rect, and as parent_id the id of its nearest ancestor with a
\* PaintLayer (None when it has none).
C20_LayerPosition ==
    WalkedScene =>
        LET tree == msg.stacking_context
            props == PublishedProperties
        IN  \A k \in 1..Len(props) :
               LET n == props[k].id
                   node == NodeAt(tree, n)
                   above == LayerlessOffsetAbove(tree, n)
                   x == above[1] + node.bounds_origin[1] + node.overflow_origin[1]
                   y == above[2] + node.bounds_origin[2] + node.overflow_origin[2]
               IN  /\ HasLayer(tree, n)
                   /\ props[k].rect.origin = <<to_nearest_px(x), to_nearest_px(y)>>
                   /\ props[k].rect.size = <<to_nearest_px(node.overflow_size[1]),
                                             to_nearest_px(node.overflow_size[2])>>
                   /\ props[k].parent_id = NearestLayerAncestor(tree, n)

\* A layer at node 4 below the layerless nodes 1 and 2, each offset by half a
\* pixel across: its origin is the rounded sum (30 + 30 + 30 - 40 = 50 Au, one
\* pixel), not the sum of the rounded offsets; and a layer at node 3, which
\* restarts the position for the layer at node 6 below it.
C20_Witness ==
    /\ WalkedScene
    /\ LET tree == msg.stacking_context
       IN  /\ ~HasLayer(tree, 1) /\ ~HasLayer(tree, 2)
           /\ HasLayer(tree, 4) /\ HasLayer(tree, 3) /\ HasLayer(tree, 6)
           /\ tree.bounds_origin = <<30, 90>>
           /\ NodeAt(tree, 2).bounds_origin = <<30, 90>>
           /\ NodeAt(tree, 4).bounds_origin = <<30, 90>>
           /\ NodeAt(tree, 3).bounds_origin = <<30, 90>>
           /\ NodeAt(tree, 6).bounds_origin = <<30, 90>>
    /\ PublishedProperties[1].id = 4
    /\ PublishedProperties[1].rect.origin = <<1, 8>>
    /\ \E k \in 1..Len(PublishedProperties) :
          /\ PublishedProperties[k].id = 6
          /\ PublishedProperties[k].parent_id = Some(3)
          /\ PublishedProperties[k].rect.origin = <<-1, 6>>

\* ------------------------------------------------------------------- C15
\* The pool holds three LayerBuffers of 1000 x 1000 pixels at most two at a
\* time: the third insert went over the budget and evicted.
PoolEvicted ==
    /\ returned_total = 3
    /\ Len(buffer_map.buffers) = 2
    /\ \A i \in 1..2 : buffer_map.buffers[i].screen_pos.size = <<1000, 1000>>

\* C15: at every point of every run the bytes held by the pool, stride times
\* height summed over its buffers, are at most 10,000,000.
C15_PoolBudget == BufferMapMem(buffer_map) <= BufferMapMaxMem

\* Three buffers of 4,000,000 bytes each came back from the compositor and
\* the pool kept 8,000,000 bytes of them.
C15_Witness == PoolEvicted /\ BufferMapMem(buffer_map) = 8000000

\* ------------------------------------------------------------------- C16
Reverse(s) == [i \in 1..Len(s) |-> s[Len(s) - i + 1]]

\* The native surfaces of the pooled buffers of that size, the most recently
\* inserted first.
SurfacesNewestFirst(bufs, size) ==
    LET same == SelectSeq(bufs, LAMBDA b : b.screen_pos.size = size)
    IN  Reverse([i \in 1..Len(same) |-> same[i].native_surface])

\* The step that handles UnusedBuffer, and the step of PaintTask::paint that
\* sends the tiles of a request to the workers.
UnusedBufferStep == pc = "recv" /\ msg'.type = "UnusedBuffer"
DispatchStep == pc = "paint" /\ pc' = "collect"

\* The PaintTile message of tile k (from 1) of the request being dispatched.
DispatchedTile(k) ==
    LET w == (k - 1) % thread_count
    IN  to_worker'[w][Len(to_worker[w]) + ((k - 1) \div thread_count) + 1]

\* In CPU mode tile k of a request gets the k-th most recently inserted pooled
\* buffer of its size, and a surface of its own once those are used up.
ReusesNewestFirst ==
    LET tiles == msg.requests[req_i].buffer_requests
        pooled == SurfacesNewestFirst(buffer_map.buffers, tiles[1].screen_rect.size)
    IN  \A k \in 1..Len(tiles) :
           LET buffer == Unwrap(DispatchedTile(k).layer_buffer)
           IN  IF k <= Len(pooled)
               THEN buffer.native_surface = pooled[k]
               ELSE buffer.native_surface = next_surface + (k - Len(pooled)) - 1

SpawnedWorkers == DOMAIN to_worker

\* The PaintTile messages in the workers' channels.
PaintTilesInFlight ==
    {m \in UNION {{to_worker[w][i] : i \in 1..Len(to_worker[w])} : w \in SpawnedWorkers} :
        m.type = "PaintTile"}

WorkerContract ==
    /\ gpu_painting =>
           /\ Cardinality(SpawnedWorkers) = 1
           /\ \A m \in PaintTilesInFlight : m.layer_buffer = None
    /\ ~gpu_painting => Cardinality(SpawnedWorkers) = paint_threads

\* C17: with gpu_painting there is one worker thread, every PaintTile message
\* carries None as its buffer and no step of PaintTask::paint changes the
\* pool; without it there are paint_threads worker threads.
C17_GpuContract ==
    [][/\ WorkerContract
       /\ WorkerContract'
       /\ gpu_painting /\ pc \in {"paint", "collect"} => buffer_map' = buffer_map]_vars

\* GPU mode with paint_threads = 2: the one worker is sent a tile without a
\* buffer while the pool holds a buffer of the tile's size.
C17_Witness ==
    /\ gpu_painting
    /\ paint_threads = 2
    /\ SpawnedWorkers = {0}
    /\ pc = "collect"
    /\ to_worker[0] # <<>>
    /\ to_worker[0][1].layer_buffer = None
    /\ IsSome(BufferMapFind(buffer_map, to_worker[0][1].tile.screen_rect.size))

\* ------------------------------------------------------------------- C18
\* A LayerBuffer is its native surface. The number of entries of a sequence
\* of buffers that are the buffer of surface n.
CountIn(bufs, n) == Cardinality({i \in 1..Len(bufs) : bufs[i].native_surface = n})

\* The buffers riding in the PaintTile messages of a channel.
BuffersSent(queue) ==
    LET carrying == SelectSeq(queue, LAMBDA m : m.type = "PaintTile" /\ IsSome(m.layer_buffer))
    IN  [i \in 1..Len(carrying) |-> Unwrap(carrying[i].layer_buffer)]

RECURSIVE CountInReplies(_, _)
CountInReplies(reply_list, n) ==
    IF reply_list = <<>> THEN 0
    ELSE CountIn(Head(reply_list).buffers, n) + CountInReplies(Tail(reply_list), n)

RECURSIVE SumOver(_, _)
SumOver(f, dom) ==
    IF dom = {} THEN 0
    ELSE LET x == CHOOSE y \in dom : TRUE IN f[x] + SumOver(f, dom \ {x})

\* How many times each holder has the buffer of surface n: the pool, the
\* coordinator (new_buffers and replies), the workers and their channels, the
\* compositor.
HeldByPool(n) == CountIn(buffer_map.buffers, n)
HeldByCoordinator(n) == CountIn(new_buffers, n) + CountInReplies(replies, n)
HeldByWorkers(n) ==
    SumOver([w \in SpawnedWorkers |->
                CountIn(BuffersSent(to_worker[w]), n) + CountIn(from_worker[w], n)],
            SpawnedWorkers)
HeldByCompositor(n) == Cardinality({b \in loaned : b.native_surface = n})

\* C18: in every state every LayerBuffer ever created is held at most once,
\* counting the pool, the coordinator, the workers with their channels and
\* the compositor together; a buffer held by nobody has been destroyed.
C18_SingleOwnership ==
    \A n \in 1..(next_surface - 1) :
        HeldByPool(n) + HeldByCoordinator(n) + HeldByWorkers(n) + HeldByCompositor(n) <= 1

\* CPU mode: one buffer sits in the pool, another is with the compositor and
\* a third rides to a worker.
C18_Witness ==
    /\ ~gpu_painting
    /\ next_surface = 4
    /\ \E a, b, c \in 1..3 :
          /\ {a, b, c} = 1..3
          /\ HeldByPool(a) = 1
          /\ HeldByCompositor(b) = 1
          /\ HeldByWorkers(c) = 1

\* ------------------------------------------------------------------- C19
\* 32 bits per pixel and no padding: the stride is four times the width of
\* the buffer's screen rect.
StrideOfWidth(b) == b.stride = 4 * b.screen_pos.size[1]

\* C19: every buffer the compositor holds has a stride of four times the
\* width of its screen rect, and the buffer shipped at position i of a reply
\* has the content_age, the page rect and the screen rect of tile i of the
\* painted request, whether its surface was made for this tile or came out
\* of the pool.
C19_ShippedBufferFields ==
    /\ \A b \in loaned : StrideOfWidth(b)
    /\ PaintedPaint =>
           \A c \in 1..Len(AssignCalls) :
              LET reply_list == AssignCalls[c].replies
              IN  \A k \in 1..Len(reply_list) :
                     LET tiles == PaintedRequests[k].buffer_requests
                         buffers == reply_list[k].buffers
                     IN  \A i \in 1..Len(buffers) :
                            /\ StrideOfWidth(buffers[i])
                            /\ buffers[i].content_age = tiles[i].content_age
                            /\ buffers[i].rect = tiles[i].page_rect
                            /\ buffers[i].screen_pos = tiles[i].screen_rect

\* CPU mode: surface 2, made for the second tile of an earlier request (page
\* rect 2, content_age 1), is shipped again for a first tile with stride 4000.
C19_Witness ==
    /\ ~gpu_painting
    /\ PaintedPaint
    /\ Len(AssignCalls) = 1
    /\ \E k \in 1..Len(AssignCalls[1].replies) :
          LET buffers == AssignCalls[1].replies[k].buffers
          IN  /\ Len(buffers) > 0
              /\ buffers[1].native_surface = 2
              /\ buffers[1].rect = 1
              /\ buffers[1].content_age = 0
              /\ buffers[1].stride = 4000
              /\ buffers[1].screen_pos.size = <<1000, 1000>>

\* ------------------------------------------------------------------- C23
\* The unwrap of self.current_epoch has failed: the paint task panicked.
EpochUnwrapFailed == pc = "panicked"

\* The Paint arm is past its loop over the requests, about to call
\* assign_painted_buffers.
AboutToShip == pc = "paint" /\ req_i > Len(msg.requests)

\* C23: a current epoch is defined wherever the paint task ships a reply or
\* publishes layers: when the Paint arm is about to call assign_painted_buffers
\* and whenever a scene is stored, and the unwrap of current_epoch never fails.
C23_EpochDefined ==
    /\ AboutToShip => IsSome(current_epoch)
    /\ IsSome(root_stacking_context) => IsSome(current_epoch)
    /\ ~EpochUnwrapFailed

\* ------------------------------------------------------------------- C21
\* Worker w took the PaintTile message at the head of its channel.
WorkerTookTile(w) ==
    /\ to_worker[w] # <<>>
    /\ Head(to_worker[w]).type = "PaintTile"
    /\ to_worker'[w] = Tail(to_worker[w])

\* A worker replies once to each PaintTile it takes, with the buffer of that
\* tile, behind its earlier replies, and replies to nothing else.
RepliesInReceiptOrder ==
    \A w \in Workers :
        /\ WorkerTookTile(w) =>
               /\ Len(from_worker'[w]) = Len(from_worker[w]) + 1
               /\ SubSeq(from_worker'[w], 1, Len(from_worker[w])) = from_worker[w]
               /\ from_worker'[w][Len(from_worker'[w])].pixels =
                      Some([tile |-> Head(to_worker[w]).tile.page_rect, worker |-> w])
        /\ Len(from_worker'[w]) > Len(from_worker[w]) => WorkerTookTile(w)

\* A worker stops running only by taking an Exit message.
StopsOnlyOnExit ==
    \A w \in Workers :
        worker_state[w] = "running" /\ worker_state'[w] # "running" =>
            /\ to_worker[w] # <<>>
            /\ Head(to_worker[w]).type = "Exit"
            /\ worker_state'[w] = "exited"

\* Stops as above, or because the paint task panicked and dropped the channel.
StopsOnExitOrDisconnect ==
    \A w \in Workers :
        worker_state[w] = "running" /\ worker_state'[w] # "running" =>
            \/ /\ to_worker[w] # <<>>
               /\ Head(to_worker[w]).type = "Exit"
               /\ worker_state'[w] = "exited"
            \/ pc = "panicked" /\ to_worker[w] = <<>>

\* The Exit messages worker w was sent: those in its channel and the one it took.
ExitsSentTo(w) ==
    Len(SelectSeq(to_worker[w], LAMBDA m : m.type = "Exit"))
        + (IF worker_state[w] = "exited" THEN 1 ELSE 0)

LoopExited == pc \in {"clear_buffers", "exit_workers", "drop_paint_task", "shutdown", "done"}

\* No worker is sent Exit before the loop over the workers in create, and
\* each has been sent exactly one after it.
ExitSentOnce ==
    \A w \in Workers :
        ExitsSentTo(w) = (IF pc \in {"drop_paint_task", "shutdown", "done"} THEN 1 ELSE 0)

AllWorkersExited ==
    \A w \in Workers : worker_state[w] = "exited" /\ to_worker[w] = <<>>

\* C21: a worker replies exactly once to each PaintTile it takes, in receipt
\* order, and stops only by taking Exit; once the loop of the paint task has
\* exited every worker is sent Exit exactly once and, the threads being
\* scheduled fairly, ends up exited with an empty channel.
C21_WorkerProtocol ==
    /\ [][RepliesInReceiptOrder /\ StopsOnlyOnExit]_vars
    /\ []ExitSentOnce
    /\ (LoopExited ~> AllWorkersExited)

\* What holds of the code: the same, with a worker also stopping when the
\* paint task has panicked.
WorkerProtocolUnlessPanicked ==
    /\ [][RepliesInReceiptOrder /\ StopsOnExitOrDisconnect]_vars
    /\ []ExitSentOnce
    /\ (LoopExited ~> AllWorkersExited)

\* ------------------------------------------------------------------- C22
\* The steps the paint task takes by itself, with no message from its port.
PaintTaskStep ==
    \/ NextMessage
    \/ PaintRequest
    \/ CollectTile
    \/ FinishPaint
    \/ TeardownStep

\* The paint task has not ended and cannot go on by itself: it is blocked in
\* a recv().
Suspended == pc \notin {"done", "panicked"} /\ ~ENABLED PaintTaskStep

\* C22 as stated: a suspended paint task is waiting on its own port.
C22_BlocksOnlyOnPortAsStated == Suspended => pc = "recv"

\* C22 amended: a suspended paint task is waiting on its own port or, in the
\* collecting loop of PaintTask::paint, on the reply channel of worker
\* i mod thread_count while that channel is empty.
C22_BlocksOnPortOrWorker ==
    Suspended =>
        \/ pc = "recv"
        \/ /\ pc = "collect"
           /\ from_worker[tile_i % thread_count] = <<>>

\* Two workers, three tiles: the paint task waits for the reply of worker 1
\* to the second tile while worker 0 has already replied to the third.
C22_Witness ==
    /\ Suspended
    /\ pc = "collect"
    /\ thread_count = 2
    /\ tile_i = 1
    /\ from_worker[1] = <<>>
    /\ from_worker[0] # <<>>

\* ------------------------------------------------------------------- C24
\* The ack channels of the Exit messages handled so far: the environment
\* numbers them 1, 2, ... in the order it sends them.
ExitChannelsHandled == 1..exits_sent

\* How often the message being handled signalled ack channel ch.
AcksSent(ch) == Len(SelectSeq(sent, LAMBDA e : e = Ack(ch)))

\* C24: once the loop of the paint task has exited, the ack channel of every
\* Exit message it handled has been signalled, and none more than once.
C24_EveryExitAcked ==
    LoopExited =>
        \A ch \in ExitChannelsHandled : ch \in acked /\ AcksSent(ch) <= 1

\* ------------------------------------------------------------------- C25
\* What the message being handled made the paint task publish to the
\* compositor: layer descriptors and painted buffers.
Published ==
    SelectSeq(sent, LAMBDA e : e.op \in {"initialize_layers_for_pipeline",
                                         "assign_painted_buffers"})

\* C25: from the Exit message that starts a drain on, no message makes the
\* paint task send layer descriptors or painted buffers to the compositor.
C25_DrainPublishesNothing == Draining => Published = <<>>

\* ------------------------------------------------------------------- C26
\* C26: a Paint message received without paint permission is handled in one
\* step that sends one PainterReady(id) to the constellation and nothing
\* else, and leaves the loan counter, the pool, the workers' channels, the
\* buffers on loan, the scene and the epoch as they were, whatever the epochs
\* of its requests.
C26_PaintWithoutPermission ==
    [][(pc = "recv" /\ msg'.type = "Paint" /\ ~paint_permission) =>
           /\ pc' = "handled"
           /\ sent' = <<PainterReady>>
           /\ UNCHANGED <<task_vars, worker_vars, loaned, next_surface, shipped_total>>]_vars

\* Without permission, a Paint message asking for tiles of a layer of the
\* current scene at the current epoch was answered with PainterReady alone.
C26_Witness ==
    /\ HandledPaint
    /\ ~paint_permission
    /\ ~Draining
    /\ sent = <<PainterReady>>
    /\ \E k \in 1..Len(msg.requests) :
          /\ ~Stale(msg.requests[k])
          /\ LayerPresent(msg.requests[k])
          /\ Len(msg.requests[k].buffer_requests) > 0
    /\ \A w \in Workers : to_worker[w] = <<>> /\ from_worker[w] = <<>>

\* ------------------------------------------------------------------- C27
\* The tiles of worker w in flight, PaintTile messages sent less PaintedTile
\* replies read: the tiles still in its channel and the replies not yet read
\* (a worker takes a tile and replies in one step).
TilesInFlight(w) ==
    Len(SelectSeq(to_worker[w], LAMBDA m : m.type = "PaintTile")) + Len(from_worker[w])

\* The paint task is in port.recv(), or past its loop and about to send Exit
\* to the workers.
WaitingForMessage == pc = "recv"
AboutToExitWorkers == pc = "exit_workers"

\* C27: when the paint task waits for its next message, and when it sends
\* Exit to the workers, no worker has a tile in flight and both channels of
\* every worker are empty.
C27_NoTileInFlight ==
    WaitingForMessage \/ AboutToExitWorkers =>
        \A w \in Workers :
            /\ TilesInFlight(w) = 0
            /\ to_worker[w] = <<>>
            /\ from_worker[w] = <<>>

\* Back in port.recv() after three tiles were painted by two workers and
\* shipped.
C27_Witness ==
    /\ WaitingForMessage
    /\ thread_count = 2
    /\ shipped_total = 3
    /\ used_buffer_count = 3
    /\ \A w \in Workers : TilesInFlight(w) = 0

\* ------------------------------------------------------------------- C28
\* The PaintTile message carries a buffer of the tile's screen size that is
\* marked as painted with the CPU.
CarriesCpuBuffer(m) ==
    /\ IsSome(m.layer_buffer)
    /\ Unwrap(m.layer_buffer).screen_pos.size = m.tile.screen_rect.size
    /\ Unwrap(m.layer_buffer).painted_with_cpu

\* Worker w replied with the buffer it was handed: the same native surface
\* and fields, now holding the painted pixels.
RepliedWithSuppliedBuffer(w) ==
    LET supplied == Unwrap(Head(to_worker[w]).layer_buffer)
        reply == from_worker'[w][Len(from_worker'[w])]
    IN  /\ worker_state'[w] = "running"
        /\ Len(from_worker'[w]) = Len(from_worker[w]) + 1
        /\ reply.native_surface = supplied.native_surface
        /\ [reply EXCEPT !.pixels = None] = [supplied EXCEPT !.pixels = None]
        /\ IsSome(reply.pixels)

\* C28: in CPU mode every PaintTile message in a worker's channel carries a
\* buffer of the tile's screen size with painted_with_cpu set, and a worker
\* that takes a PaintTile message does not panic and replies with the buffer
\* it was handed.
C28_CpuTileCarriesBuffer ==
    [][~gpu_painting =>
           /\ \A w \in Workers : \A i \in 1..Len(to_worker'[w]) :
                  to_worker'[w][i].type = "PaintTile" => CarriesCpuBuffer(to_worker'[w][i])
           /\ \A w \in Workers : WorkerTookTile(w) => RepliedWithSuppliedBuffer(w)]_vars

\* CPU mode, one worker: it has replied to the first tile with surface 1 and
\* the second tile waits in its channel with surface 2.
C28_Witness ==
    /\ ~gpu_painting
    /\ thread_count = 1
    /\ Len(from_worker[0]) = 1
    /\ from_worker[0][1].native_surface = 1
    /\ from_worker[0][1].pixels = Some([tile |-> 1, worker |-> 0])
    /\ Len(to_worker[0]) = 1
    /\ to_worker[0][1].type = "PaintTile"
    /\ CarriesCpuBuffer(to_worker[0][1])
    /\ Unwrap(to_worker[0][1].layer_buffer).native_surface = 2

====
